---- MODULE Spec2Model ----
(***************************************************************************)
(* A model of the book scanner: the interactive add loop of scanner.py,    *)
(* the enrichment sweep of cleaner.py, and the pure helpers they rest on   *)
(* (isbn13_to_isbn10, is_valid_date, the two sortable_date methods).       *)
(*                                                                         *)
(* A Python str is modelled as a sequence of characters, each character a  *)
(* one-character string; "sup2" stands for U+00B2 (SUPERSCRIPT TWO), a     *)
(* character for which str.isdigit() is true and int() raises ValueError.  *)
(***************************************************************************)
EXTENDS Integers, Sequences, FiniteSets, TLC

VARIABLES
    prog,       \* which program/function this behaviour runs
    pc,         \* position of the running program
    books,      \* scanner: dict isbn -> Book, as a sequence in insertion order;
                \* cleaner: the list of Book read from the CSV
    csv,        \* the rows of books.csv, in file order
    olib,       \* Open Library: identifier -> response
    gbooks,     \* Google Books: identifier -> response
    queries,    \* log of collaborator calls made by the last handler/pass
    cur,        \* cleaner: index of the next book to process; scanner: last input
    prev,       \* value before the last handler/pass ran (books or one book)
    last,       \* what the last handler did
    runs,       \* cleaner: completed runs of the program
    arg,        \* pure-function runs: the input; cleaner: the rows as read
    res         \* pure-function runs: the result

vars == <<prog, pc, books, csv, olib, gbooks, queries, cur, prev, last, runs, arg, res>>

----------------------------------------------------------------------------
(* Characters and strings                                                  *)

Digits == <<"0", "1", "2", "3", "4", "5", "6", "7", "8", "9">>

Uppers == <<"A", "B", "C", "D", "E", "F", "G", "H", "I", "J", "K", "L", "M",
            "N", "O", "P", "Q", "R", "S", "T", "U", "V", "W", "X", "Y", "Z">>

Lowers == <<"a", "b", "c", "d", "e", "f", "g", "h", "i", "j", "k", "l", "m",
            "n", "o", "p", "q", "r", "s", "t", "u", "v", "w", "x", "y", "z">>

\* The characters of the model in code-point order (str comparison order).
CodeOrder == <<" ", "+", ",", "-">> \o Digits \o Uppers \o Lowers \o <<"sup2">>

Range(s) == {s[i] : i \in 1..Len(s)}

IndexIn(c, s) == CHOOSE i \in 1..Len(s) : s[i] = c

Ord(c) == IndexIn(c, CodeOrder)

DigitSet == Range(Digits)

DigitVal(c) == IndexIn(c, Digits) - 1

DigitChar(n) == Digits[n + 1]

\* str.lower() on one character
LowerCh(c) == IF c \in Range(Uppers) THEN Lowers[IndexIn(c, Uppers)] ELSE c

\* str.lower()
Lower(s) == [i \in 1..Len(s) |-> LowerCh(s[i])]

\* str.isalpha() on one character
IsAlphaCh(c) == c \in Range(Uppers) \cup Range(Lowers)

\* str.isdigit(): non-empty and every character has the Unicode digit property
IsDigitStr(s) == Len(s) > 0 /\ \A i \in 1..Len(s) : s[i] \in DigitSet \cup {"sup2"}

\* Python slice s[a:b] with 0 <= a, written with 1-based inclusive bounds
Slice(s, from, to) ==
    IF to > Len(s) THEN SubSeq(s, from, Len(s)) ELSE SubSeq(s, from, to)

\* str < str: lexicographic by code point
RECURSIVE StrLess(_, _)
StrLess(s, t) ==
    IF Len(t) = 0 THEN FALSE
    ELSE IF Len(s) = 0 THEN TRUE
    ELSE IF s[1] # t[1] THEN Ord(s[1]) < Ord(t[1])
    ELSE StrLess(Tail(s), Tail(t))

\* str.strip() restricted to the blank of the model
RECURSIVE LStrip(_)
LStrip(s) == IF Len(s) > 0 /\ s[1] = " " THEN LStrip(Tail(s)) ELSE s

RECURSIVE RStrip(_)
RStrip(s) ==
    IF Len(s) > 0 /\ s[Len(s)] = " " THEN RStrip(SubSeq(s, 1, Len(s) - 1)) ELSE s

Strip(s) == LStrip(RStrip(s))

\* sep.join(parts)
RECURSIVE Join(_, _)
Join(sep, parts) ==
    IF Len(parts) = 0 THEN <<>>
    ELSE IF Len(parts) = 1 THEN parts[1]
    ELSE parts[1] \o sep \o Join(sep, Tail(parts))

CommaSpace == <<",", " ">>

AllDigits(s) == \A i \in 1..Len(s) : s[i] \in DigitSet

\* value of a digit string of at most four characters
RECURSIVE SmallVal(_)
SmallVal(ds) ==
    IF Len(ds) = 0 THEN 0
    ELSE 10 * SmallVal(SubSeq(ds, 1, Len(ds) - 1)) + DigitVal(ds[Len(ds)])

RECURSIVE StripZeros(_)
StripZeros(ds) == IF Len(ds) > 0 /\ ds[1] = "0" THEN StripZeros(Tail(ds)) ELSE ds

----------------------------------------------------------------------------
(* Calendar dates and datetime.strptime                                    *)

MonthNames == << <<"j","a","n">>, <<"f","e","b">>, <<"m","a","r">>, <<"a","p","r">>,
                 <<"m","a","y">>, <<"j","u","n">>, <<"j","u","l">>, <<"a","u","g">>,
                 <<"s","e","p">>, <<"o","c","t">>, <<"n","o","v">>, <<"d","e","c">> >>

IsLeap(y) == (y % 4 = 0 /\ y % 100 # 0) \/ y % 400 = 0

DaysInMonth(y, m) ==
    IF m = 2 THEN (IF IsLeap(y) THEN 29 ELSE 28)
    ELSE IF m \in {4, 6, 9, 11} THEN 30 ELSE 31

\* a datetime value (time of day is always midnight here)
Date(y, m, d) == [exc |-> "none", y |-> y, m |-> m, d |-> d]

Raised(e) == [exc |-> e, y |-> 0, m |-> 0, d |-> 0]

NoMatch == Raised("ValueError")

\* datetime comparison
DateLess(a, b) ==
    \/ a.y < b.y
    \/ a.y = b.y /\ a.m < b.m
    \/ a.y = b.y /\ a.m = b.m /\ a.d < b.d

\* the date strptime builds from matched fields: ValueError for year 0 or a
\* day the month does not have
MakeDate(y, m, d) ==
    IF y >= 1 /\ m \in 1..12 /\ d >= 1 /\ d <= DaysInMonth(y, m)
    THEN Date(y, m, d) ELSE NoMatch

\* %d : 3[0-1] | [1-2]\d | 0[1-9] | [1-9]   (the " [1-9]" form is covered by
\* the preceding blank run where it can occur)
DayField(f) ==
    /\ Len(f) \in 1..2
    /\ AllDigits(f)
    /\ SmallVal(f) \in 1..31

\* %m : 1[0-2] | 0[1-9] | [1-9]
MonthField(f) ==
    /\ Len(f) \in 1..2
    /\ AllDigits(f)
    /\ SmallVal(f) \in 1..12

\* %Y : \d\d\d\d
YearField(f) == Len(f) = 4 /\ AllDigits(f)

\* position of the first occurrence of c in s at or after i, or 0
RECURSIVE Find(_, _, _)
Find(s, c, i) ==
    IF i > Len(s) THEN 0 ELSE IF s[i] = c THEN i ELSE Find(s, c, i + 1)

\* first position at or after i that does not hold a blank
RECURSIVE SkipBlanks(_, _)
SkipBlanks(s, i) ==
    IF i <= Len(s) /\ s[i] = " " THEN SkipBlanks(s, i + 1) ELSE i

\* datetime.strptime(s, "%Y-%m-%d")
StrptimeYmd(s) ==
    LET d1 == Find(s, "-", 1)
        d2 == IF d1 = 0 THEN 0 ELSE Find(s, "-", d1 + 1)
    IN  IF d1 # 5 \/ d2 = 0 THEN NoMatch
        ELSE LET yf == SubSeq(s, 1, 4)
                 mf == SubSeq(s, 6, d2 - 1)
                 df == SubSeq(s, d2 + 1, Len(s))
                 \* " [1-9]" : a blank and one non-zero digit
                 dv == IF Len(df) = 2 /\ df[1] = " " /\ df[2] \in DigitSet \ {"0"}
                       THEN DigitVal(df[2])
                       ELSE IF DayField(df) THEN SmallVal(df) ELSE 0
             IN  IF YearField(yf) /\ MonthField(mf) /\ dv > 0
                 THEN MakeDate(SmallVal(yf), SmallVal(mf), dv)
                 ELSE NoMatch

\* datetime.strptime(s, "%b %d, %Y"): month name (any case), blanks, day,
\* a comma, blanks, four digits
StrptimeBdY(s) ==
    IF Len(s) < 3 \/ ~(\E k \in 1..12 : MonthNames[k] = Lower(SubSeq(s, 1, 3)))
    THEN NoMatch
    ELSE LET mon == CHOOSE k \in 1..12 : MonthNames[k] = Lower(SubSeq(s, 1, 3))
             a   == SkipBlanks(s, 4)
             c   == Find(s, ",", a)
             b   == IF c = 0 THEN 0 ELSE SkipBlanks(s, c + 1)
         IN  IF a = 4 \/ c = 0 \/ b = c + 1 THEN NoMatch
             ELSE LET df == SubSeq(s, a, c - 1)
                      yf == SubSeq(s, b, Len(s))
                  IN  IF DayField(df) /\ YearField(yf)
                      THEN MakeDate(SmallVal(yf), mon, SmallVal(df))
                      ELSE NoMatch

\* datetime.strptime(s, "%Y")
StrptimeY(s) == IF YearField(s) THEN MakeDate(SmallVal(s), 1, 1) ELSE NoMatch

----------------------------------------------------------------------------
(* int() and datetime(year, 1, 1)                                          *)

IntMaxDigits == <<"2", "1", "4", "7", "4", "8", "3", "6", "4", "7">>

IntMinDigits == <<"2", "1", "4", "7", "4", "8", "3", "6", "4", "8">>

\* int(s): blanks stripped, an optional sign, then decimal digits.
\* [ok, neg, sig] with sig the digits without leading zeros.
IntParse(s) ==
    LET t    == Strip(s)
        sgn  == Len(t) > 0 /\ t[1] \in {"+", "-"}
        body == IF sgn THEN Tail(t) ELSE t
    IN  IF Len(body) > 0 /\ AllDigits(body)
        THEN [ok |-> TRUE, neg |-> (sgn /\ t[1] = "-"), sig |-> StripZeros(body)]
        ELSE [ok |-> FALSE, neg |-> FALSE, sig |-> <<>>]

\* the magnitude sig exceeds the magnitude lim (digit strings, no leading zeros)
Exceeds(sig, lim) ==
    \/ Len(sig) > Len(lim)
    \/ Len(sig) = Len(lim) /\ StrLess(lim, sig)

\* datetime(int(s), 1, 1) for a string int() accepts: OverflowError when the
\* year does not fit a C int, ValueError when it is outside 1..9999
DatetimeOfYear(p) ==
    IF Exceeds(p.sig, IF p.neg THEN IntMinDigits ELSE IntMaxDigits)
    THEN Raised("OverflowError")
    ELSE IF p.neg \/ Len(p.sig) > 4 \/ Len(p.sig) = 0 THEN NoMatch
    ELSE Date(SmallVal(p.sig), 1, 1)

\* int(s) for a string of at most four characters int() accepts
SmallInt(p) == IF p.neg THEN 0 - SmallVal(p.sig) ELSE SmallVal(p.sig)

----------------------------------------------------------------------------
(* classes.py                                                              *)

SentinelYear == 1900

ClampYear == 2000

\* Book.sortable_date, last stage: the year of the first four characters
YearClamp(year) ==
    IF year < SentinelYear THEN SentinelYear
    ELSE IF year < ClampYear THEN ClampYear
    ELSE year

\* Book.sortable_date (classes.py); only ValueError is caught at each stage
sortable_date(s) ==
    IF StrptimeBdY(s).exc = "none" THEN StrptimeBdY(s)
    ELSE IF StrptimeYmd(s).exc = "none" THEN StrptimeYmd(s)
    ELSE LET whole == IntParse(s)
             head  == IntParse(Slice(s, 1, 4))
         IN  IF whole.ok /\ DatetimeOfYear(whole).exc # "ValueError"
             THEN DatetimeOfYear(whole)
             ELSE IF head.ok THEN Date(YearClamp(SmallInt(head)), 1, 1)
             ELSE Date(SentinelYear, 1, 1)

----------------------------------------------------------------------------
(* cleaner.py: is_valid_date                                               *)

is_valid_date(s) == StrptimeYmd(s).exc = "none"

----------------------------------------------------------------------------
(* scanner.py: Book.sortable_date and isbn13_to_isbn10                     *)

\* datetime.min
DatetimeMin == Date(1, 1, 1)

\* scanner.Book.sortable_date
scanner_sortable_date(s) ==
    IF StrptimeBdY(s).exc = "none" THEN StrptimeBdY(s)
    ELSE IF StrptimeY(s).exc = "none" THEN StrptimeY(s)
    ELSE DatetimeMin

\* sum of int(digit) * (10 - i) over enumerate(core), from index i (0-based)
RECURSIVE WeightedSum(_, _)
WeightedSum(core, i) ==
    IF i >= Len(core) THEN 0
    ELSE DigitVal(core[i + 1]) * (10 - i) + WeightedSum(core, i + 1)

CheckChar(total) ==
    LET check == 11 - (total % 11)
    IN  IF check = 10 THEN "X" ELSE IF check = 11 THEN "0" ELSE DigitChar(check)

\* isbn13_to_isbn10: [exc, val]; int(digit) raises ValueError for a core
\* character that is not a decimal digit
isbn13_to_isbn10(isbn13) ==
    IF Len(isbn13) < 3 \/ SubSeq(isbn13, 1, 3) # <<"9", "7", "8">> \/ Len(isbn13) # 13
    THEN [exc |-> "none", val |-> <<>>]
    ELSE LET core == SubSeq(isbn13, 4, 12)
         IN  IF ~AllDigits(core) THEN [exc |-> "ValueError", val |-> <<>>]
             ELSE [exc |-> "none", val |-> Append(core, CheckChar(WeightedSum(core, 0)))]

----------------------------------------------------------------------------
(* Sample data: identifiers, texts and collaborator payloads               *)

Empty == <<>>

Isbn1 == <<"9","7","8","0","3","1","6","0","6","6","5","2","5">>

Isbn1as10 == <<"0","3","1","6","0","6","6","5","2","4">>

Isbn2 == <<"9","7","8","0","3","0","6","4","0","6","1","5","7">>

Isbn2as10 == <<"0","3","0","6","4","0","6","1","5","2">>

Isbn3 == <<"9","7","8","0","0","0","0","0","0","0","0","6","4">>

Isbn3as10 == <<"0","0","0","0","0","0","0","0","6","X">>

Isbn979 == <<"9","7","9","0","0","0","0","0","0","0","0","0","1">>

TxtTitle == <<"E","m","m","a">>

TxtSub == <<"s","u","b">>

TxtUrl == <<"u","r","l">>

TxtOldTags == <<"o","l","d">>

TxtOldDesc == <<"d","0">>

TxtOldThumb == <<"t","0">>

TxtDesc == <<"d","1">>

TxtThumb == <<"t","1">>

TxtFiction == <<"F","i","c">>

TxtHistory == <<"H","i","s">>

TxtSubjectA == <<"s","a">>

TxtSubjectB == <<"s","b">>

AuthJaneTwain == <<"J","a","n","e"," ","T","w","a","i","n">>

AuthJaneTwainLc == <<"j","a","n","e"," ","t","w","a","i","n">>

AuthMarkAusten == <<"M","a","r","k"," ","A","u","s","t","e","n">>

DateYearOnly == <<"2","0","0","1">>

DateIso == <<"2","0","0","1","-","0","1","-","0","5">>

DateIsoShort == <<"2","0","0","2","-","3","-","4">>

DateIsoB == <<"2","0","0","2","-","0","3","-","0","4">>

DateNamed == <<"J","a","n"," ","5",","," ","2","0","0","1">>

DateYear1999 == <<"1","9","9","9">>

DateYear2003 == <<"2","0","0","3">>

DateBadDay == <<"2","0","0","1","-","0","2","-","3","0">>

\* an Open Library book object (jscmd=data); a subject may lack "name"
OlObject(title, authors, publish_date, url, subjects) ==
    [title |-> title, subtitle |-> Empty, authors |-> authors,
     publish_date |-> publish_date, url |-> url, subjects |-> subjects]

Subject(name) == [named |-> TRUE, name |-> name]

SubjectNoName == [named |-> FALSE, name |-> Empty]

\* an Open Library response: the JSON object, as its list of (key, value)
\* entries; {} is the empty list
OlNothing == <<>>

OlResponse(id, obj) == << [key |-> id, obj |-> obj] >>

\* a Google Books volume (items[0]); present = FALSE is "no items"
GbItem(title, authors, publishedDate, categories, description, thumbnail) ==
    [present |-> TRUE, title |-> title, subtitle |-> TxtSub, authors |-> authors,
     publishedDate |-> publishedDate, infoLink |-> TxtUrl,
     categories |-> categories, description |-> description,
     thumbnail |-> thumbnail]

GbNothing ==
    [present |-> FALSE, title |-> Empty, subtitle |-> Empty, authors |-> <<>>,
     publishedDate |-> Empty, infoLink |-> Empty, categories |-> <<>>,
     description |-> Empty, thumbnail |-> Empty]

\* the response of a collaborator to a query: nothing for an identifier it
\* does not know
Fetch(src, nothing, id) == IF id \in DOMAIN src THEN src[id] ELSE nothing

----------------------------------------------------------------------------
(* classes.py: Book                                                         *)

Book(isbn13, isbn10, title, subtitle, author, publish_date, url, scanned_input, tags, description, thumbnail) ==
    [isbn13 |-> isbn13, isbn10 |-> isbn10, title |-> title,
     subtitle |-> subtitle, author |-> author, publish_date |-> publish_date,
     url |-> url, scanned_input |-> scanned_input, tags |-> tags,
     description |-> description, thumbnail |-> thumbnail]

\* Book.to_csv_row: thumbnail is written before description
to_csv_row(b) ==
    <<b.isbn13, b.isbn10, b.title, b.subtitle, b.author, b.publish_date,
      b.url, b.scanned_input, b.tags, b.thumbnail, b.description>>

\* row.get(column, ""): a row of an older CSV has fewer columns
RowGet(row, i) == IF i <= Len(row) THEN row[i] ELSE Empty

\* cleaner.main, the Book built from one DictReader row
BookOfRow(row) ==
    Book(row[1], row[2], row[3], row[4], row[5], row[6], row[7], row[8], row[9],
         RowGet(row, 11), RowGet(row, 10))

----------------------------------------------------------------------------
(* cleaner.py: update_book_info                                            *)

QueryA(id) == <<"A", id>>

QueryB(id) == <<"B", id>>

needs_openlibrary(book) == book.tags = Empty


\* a slip: "and" for "or"
needs_google_both(book) ==
    ~is_valid_date(book.publish_date) /\ book.description = Empty

needs_google(book) == ~is_valid_date(book.publish_date) \/ book.description = Empty

\* fetch_open_library_data(isbn13) or fetch_open_library_data(isbn10):
\* the second call is made only when the first returned {}
FetchOpenLibrary(ol, book) ==
    LET first == Fetch(ol, OlNothing, book.isbn13)
    IN  IF first # OlNothing
        THEN [data |-> first, log |-> <<QueryA(book.isbn13)>>]
        ELSE [data |-> Fetch(ol, OlNothing, book.isbn10),
              log  |-> <<QueryA(book.isbn13), QueryA(book.isbn10)>>]

\* fetch_google_books_data(isbn13) or fetch_google_books_data(isbn10)
FetchGoogle(gb, book) ==
    LET first == Fetch(gb, GbNothing, book.isbn13)
    IN  IF first.present
        THEN [data |-> first, log |-> <<QueryB(book.isbn13)>>]
        ELSE [data |-> Fetch(gb, GbNothing, book.isbn10),
              log  |-> <<QueryB(book.isbn13), QueryB(book.isbn10)>>]

\* openlib_data.get(key, {}).get("subjects", [])
OlSubjects(data, id) ==
    IF \E i \in 1..Len(data) : data[i].key = id
    THEN data[CHOOSE i \in 1..Len(data) : data[i].key = id].obj.subjects
    ELSE <<>>

\* [subj["name"] for subj in subjects if "name" in subj]
RECURSIVE SubjectNames(_)
SubjectNames(subjects) ==
    IF Len(subjects) = 0 THEN <<>>
    ELSE IF subjects[1].named
         THEN <<subjects[1].name>> \o SubjectNames(Tail(subjects))
         ELSE SubjectNames(Tail(subjects))

\* lines 39-46: tags from Open Library, looked up under isbn13 or isbn10
TagsFromOpenLibrary(book, openlib) ==
    IF book.tags = Empty /\ openlib # OlNothing
    THEN LET key  == IF book.isbn13 # Empty THEN book.isbn13 ELSE book.isbn10
             tags == Join(CommaSpace, SubjectNames(OlSubjects(openlib, key)))
         IN  IF tags # Empty THEN tags ELSE book.tags
    ELSE book.tags


\* a slip: the categories are added to the tags on every pass
TagsFromGoogleAppend(tags, google) ==
    IF google.present /\ google.categories # <<>>
    THEN (IF tags = Empty THEN Empty ELSE tags \o CommaSpace)
            \o Join(CommaSpace, google.categories)
    ELSE tags

\* lines 48-54: fallback to the Google Books categories
TagsFromGoogle(tags, google) ==
    IF tags = Empty /\ google.present /\ google.categories # <<>>
    THEN Join(CommaSpace, google.categories)
    ELSE tags


\* a slip: the date of Google Books is taken without checking it
FixPublishDateUnchecked(publish_date, google) ==
    IF ~is_valid_date(publish_date) /\ google.present
          /\ google.publishedDate # Empty
    THEN google.publishedDate
    ELSE publish_date

\* lines 56-63: repair of an invalid publish date
FixPublishDate(publish_date, google) ==
    IF ~is_valid_date(publish_date) /\ google.present
          /\ is_valid_date(google.publishedDate)
    THEN google.publishedDate
    ELSE publish_date


\* a slip: the description of Google Books replaces the stored one
FillDescriptionOverwrite(description, google) ==
    IF google.present /\ google.description # Empty
    THEN google.description
    ELSE description

\* lines 65-70
FillDescription(description, google) ==
    IF description = Empty /\ google.present /\ google.description # Empty
    THEN google.description
    ELSE description

\* lines 72-77
FillThumbnail(thumbnail, google) ==
    IF thumbnail = Empty /\ google.present /\ google.thumbnail # Empty
    THEN google.thumbnail
    ELSE thumbnail

\* update_book_info: the book after the pass and the collaborator calls made
update_book_info(book, ol, gb) ==
    LET a == IF needs_openlibrary(book) THEN FetchOpenLibrary(ol, book)
             ELSE [data |-> OlNothing, log |-> <<>>]
        b == IF needs_google(book) THEN FetchGoogle(gb, book)
             ELSE [data |-> GbNothing, log |-> <<>>]
        tags == TagsFromGoogle(TagsFromOpenLibrary(book, a.data), b.data)
    IN  [book |-> [book EXCEPT
                     !.tags = tags,
                     !.publish_date = FixPublishDate(book.publish_date, b.data),
                     !.description = FillDescription(book.description, b.data),
                     !.thumbnail = FillThumbnail(book.thumbnail, b.data)],
         log  |-> a.log \o b.log]

----------------------------------------------------------------------------
(* scanner.py: Book, load_books, save_books                                *)

ScanBook(isbn13, title, subtitle, author, publish_date, url) ==
    [isbn13 |-> isbn13, title |-> title, subtitle |-> subtitle,
     author |-> author, publish_date |-> publish_date, url |-> url]

\* data.get("ISBN:<isbn>", {})
OlHasKey(data, id) == \E i \in 1..Len(data) : data[i].key = id

\* {}: every .get() on it gives the default
OlNoObject == OlObject(Empty, <<>>, Empty, Empty, <<>>)

OlGet(data, id) ==
    IF OlHasKey(data, id)
    THEN data[CHOOSE i \in 1..Len(data) : data[i].key = id].obj
    ELSE OlNoObject

\* scanner.Book.from_api: the fields are read under the key "ISBN:<isbn>"
from_api(isbn, data) ==
    LET book_data == OlGet(data, isbn)
    IN  ScanBook(isbn, book_data.title, book_data.subtitle,
                 Join(CommaSpace, book_data.authors), book_data.publish_date,
                 book_data.url)

\* scanner.Book.from_google_books
scanner_from_google_books(isbn, item) ==
    ScanBook(isbn, item.title, item.subtitle, Join(CommaSpace, item.authors),
             item.publishedDate, item.infoLink)

scanner_to_csv_row(b) ==
    <<b.isbn13, b.title, b.subtitle, b.author, b.publish_date, b.url>>

\* the sort key of save_books: (author.lower(), sortable_date())
SaveKeyLess(a, b) ==
    \/ StrLess(Lower(a.author), Lower(b.author))
    \/ /\ Lower(a.author) = Lower(b.author)
       /\ DateLess(scanner_sortable_date(a.publish_date),
                   scanner_sortable_date(b.publish_date))

\* sorted(): stable, an element goes after every element not greater than it
RECURSIVE InsertSorted(_, _)
InsertSorted(sorted, x) ==
    IF Len(sorted) = 0 THEN <<x>>
    ELSE IF SaveKeyLess(x, sorted[1]) THEN <<x>> \o sorted
    ELSE <<sorted[1]>> \o InsertSorted(Tail(sorted), x)

RECURSIVE SortBooks(_)
SortBooks(bks) ==
    IF Len(bks) = 0 THEN <<>>
    ELSE InsertSorted(SortBooks(SubSeq(bks, 1, Len(bks) - 1)), bks[Len(bks)])


\* a slip: the rows are written in insertion order
save_books_unsorted(bks) == [i \in 1..Len(bks) |-> scanner_to_csv_row(bks[i])]

\* save_books: the rows written to books.csv
save_books(bks) ==
    LET sorted_books == SortBooks(bks)
    IN  [i \in 1..Len(sorted_books) |-> scanner_to_csv_row(sorted_books[i])]

\* books[key] = book on a dict kept in insertion order
DictSet(bks, book) ==
    IF \E i \in 1..Len(bks) : bks[i].isbn13 = book.isbn13
    THEN [i \in 1..Len(bks) |->
             IF bks[i].isbn13 = book.isbn13 THEN book ELSE bks[i]]
    ELSE Append(bks, book)

\* load_books: one Book per row, keyed by the ISBN-13 column
RECURSIVE load_books(_)
load_books(rows) ==
    IF Len(rows) = 0 THEN <<>>
    ELSE LET row == rows[Len(rows)]
         IN  DictSet(load_books(SubSeq(rows, 1, Len(rows) - 1)),
                     ScanBook(row[1], row[2], row[3], row[4], row[5], row[6]))

InCatalog(bks, isbn) == \E i \in 1..Len(bks) : bks[i].isbn13 = isbn

----------------------------------------------------------------------------
(* scanner.py: main, one iteration of the input loop                       *)

Outcome(bks, rows, log, what, next) ==
    [books |-> bks, csv |-> rows, log |-> log, last |-> what, pc |-> next]

\* books[isbn] = book; save_books(books); continue
Added(bks, book, log, what) ==
    LET after == DictSet(bks, book)
    IN  Outcome(after, save_books(after), log, what, "loop")

\* lines 201-214: Google Books under the ISBN-10, then "not found"
TryGoogle10(bks, rows, gb, isbn, isbn10, log) ==
    IF isbn10 = Empty THEN Outcome(bks, rows, log, "not_found", "loop")
    ELSE LET data == Fetch(gb, GbNothing, isbn10)
             log2 == Append(log, QueryB(isbn10))
         IN  IF data.present
             THEN Added(bks, scanner_from_google_books(isbn, data), log2,
                        "added_google_10")
             ELSE Outcome(bks, rows, log2, "not_found", "loop")

\* lines 190-199: Google Books under the ISBN-13
TryGoogle13(bks, rows, gb, isbn, isbn10, log) ==
    LET data == Fetch(gb, GbNothing, isbn)
        log2 == Append(log, QueryB(isbn))
    IN  IF data.present
        THEN Added(bks, scanner_from_google_books(isbn, data), log2,
                   "added_google_13")
        ELSE TryGoogle10(bks, rows, gb, isbn, isbn10, log2)

\* a slip: the ISBN-10 fallback of Open Library is left out
TryOpenLibrary10Skipped(bks, rows, ol, gb, isbn, isbn10, log) ==
    TryGoogle13(bks, rows, gb, isbn, isbn10, log)

\* lines 178-188: Open Library under the ISBN-10; the record is still built
\* by from_api(isbn, data), which reads the key of the ISBN-13
TryOpenLibrary10(bks, rows, ol, gb, isbn, isbn10, log) ==
    IF isbn10 = Empty THEN TryGoogle13(bks, rows, gb, isbn, isbn10, log)
    ELSE LET data == Fetch(ol, OlNothing, isbn10)
             log2 == Append(log, QueryA(isbn10))
         IN  IF data # OlNothing /\ OlHasKey(data, isbn10)
             THEN Added(bks, from_api(isbn, data), log2, "added_openlibrary_10")
             ELSE TryGoogle13(bks, rows, gb, isbn, isbn10, log2)


\* a slip: Google Books is asked first and Open Library never
TryGoogleFirst(bks, rows, ol, gb, isbn) ==
    LET conv == isbn13_to_isbn10(isbn)
    IN  IF conv.exc # "none" THEN Outcome(bks, rows, <<>>, "raised", "crashed")
        ELSE TryGoogle13(bks, rows, gb, isbn, conv.val, <<>>)

\* lines 165-176: the conversion, then Open Library under the ISBN-13
TryOpenLibrary13(bks, rows, ol, gb, isbn) ==
    LET conv == isbn13_to_isbn10(isbn)
        data == Fetch(ol, OlNothing, isbn)
        log  == <<QueryA(isbn)>>
    IN  IF conv.exc # "none" THEN Outcome(bks, rows, <<>>, "raised", "crashed")
        ELSE IF data # OlNothing /\ OlHasKey(data, isbn)
        THEN Added(bks, from_api(isbn, data), log, "added_openlibrary_13")
        ELSE TryOpenLibrary10(bks, rows, ol, gb, isbn, conv.val, log)

IsQuit(s) == Lower(s) = <<"q">>

IsTitle(s) == ~IsDigitStr(s) /\ \E i \in 1..Len(s) : IsAlphaCh(s[i])


\* a slip: the length of a numeric input is not checked
HandleInputAnyLength(bks, rows, ol, gb, typed) ==
    LET user_input == Strip(typed)
    IN  IF IsQuit(user_input) THEN Outcome(bks, rows, <<>>, "quit", "exit")
        ELSE IF IsDigitStr(user_input)
        THEN IF InCatalog(bks, user_input)
             THEN Outcome(bks, rows, <<>>, "already", "loop")
             ELSE TryOpenLibrary13(bks, rows, ol, gb, user_input)
        ELSE Outcome(bks, rows, <<>>, "ignored", "loop")

\* lines 144-214: one input that is not answered by a title search
HandleInput(bks, rows, ol, gb, typed) ==
    LET user_input == Strip(typed)
    IN  IF IsQuit(user_input) THEN Outcome(bks, rows, <<>>, "quit", "exit")
        ELSE IF IsDigitStr(user_input)
        THEN IF Len(user_input) # 13
             THEN Outcome(bks, rows, <<>>, "invalid", "loop")
             ELSE IF InCatalog(bks, user_input)
             THEN Outcome(bks, rows, <<>>, "already", "loop")
             ELSE TryOpenLibrary13(bks, rows, ol, gb, user_input)
        ELSE Outcome(bks, rows, <<>>, "ignored", "loop")

\* str in str
Contains(sub, s) ==
    \E i \in 1..(Len(s) + 1) :
        i + Len(sub) - 1 <= Len(s) /\ SubSeq(s, i, i + Len(sub) - 1) = sub

\* search_books_by_title_and_author
search_books_by_title_and_author(bks, title, author) ==
    SelectSeq(bks, LAMBDA b : /\ Contains(Lower(title), Lower(b.title))
                              /\ Contains(Lower(author), Lower(b.author)))

\* lines 217-243: the title search; it only reads the catalog
HandleTitle(bks, rows, title, author, selection) ==
    LET matching_books == search_books_by_title_and_author(bks, title, author)
    IN  IF Len(matching_books) = 0
        THEN Outcome(bks, rows, <<>>, "no_match", "loop")
        ELSE IF IsQuit(selection) THEN Outcome(bks, rows, <<>>, "quit", "exit")
        ELSE IF AllDigits(selection) /\ Len(selection) \in 1..4
                  /\ SmallVal(selection) \in 1..Len(matching_books)
        THEN Outcome(bks, rows, <<>>, "selected", "loop")
        ELSE Outcome(bks, rows, <<>>, "bad_selection", "loop")

----------------------------------------------------------------------------
(* The collaborators' answers and the inputs of the scanner                *)

ScanIsbn13s == <<Isbn1, Isbn2, Isbn979>>

ScanIsbn10s == <<Isbn1as10, Isbn2as10>>

ScanOlObjects ==
    << OlObject(TxtTitle, <<AuthJaneTwain>>, DateNamed, TxtUrl, <<Subject(TxtSubjectA)>>),
       OlObject(TxtTitle, <<AuthMarkAusten>>, DateYear1999, TxtUrl, <<>>),
       OlObject(TxtSub, <<>>, Empty, Empty, <<Subject(TxtSubjectB)>>) >>

ScanGbItems ==
    << GbItem(TxtTitle, <<AuthJaneTwainLc>>, DateYear2003, <<TxtFiction>>, TxtDesc, TxtThumb),
       GbItem(TxtTitle, <<AuthMarkAusten>>, DateIsoB, <<>>, Empty, Empty),
       GbItem(TxtSub, <<AuthMarkAusten, AuthJaneTwain>>, DateYearOnly, <<TxtHistory>>, Empty, Empty) >>

\* which of the four lookups of one book have an answer
Avail(a13, a10, b13, b10) == [a13 |-> a13, a10 |-> a10, b13 |-> b13, b10 |-> b10]

AvailPatterns ==
    { Avail(FALSE, FALSE, FALSE, FALSE), Avail(TRUE, TRUE, TRUE, TRUE),
      Avail(FALSE, TRUE, TRUE, TRUE), Avail(FALSE, FALSE, TRUE, TRUE),
      Avail(FALSE, FALSE, FALSE, TRUE), Avail(TRUE, FALSE, FALSE, FALSE) }

AvailSome ==
    { Avail(TRUE, FALSE, TRUE, FALSE), Avail(FALSE, FALSE, TRUE, FALSE),
      Avail(FALSE, TRUE, FALSE, FALSE) }

AvailShort == { Avail(FALSE, FALSE, FALSE, FALSE), Avail(FALSE, FALSE, TRUE, FALSE) }

\* one pattern for each of the three books; the last has no ISBN-10
ScanAvails ==
    { <<w1, w2, w3>> : w1 \in AvailPatterns, w2 \in AvailSome, w3 \in AvailShort }

ScanIds == Range(ScanIsbn13s) \cup Range(ScanIsbn10s)

IsScan13(id) == \E k \in 1..Len(ScanIsbn13s) : ScanIsbn13s[k] = id

IndexOfId(id) ==
    IF IsScan13(id) THEN IndexIn(id, ScanIsbn13s) ELSE IndexIn(id, ScanIsbn10s)

\* Open Library answers under the key it was asked for
OlWorld(w) ==
    [id \in ScanIds |->
        LET k == IndexOfId(id)
        IN  IF (IsScan13(id) /\ w[k].a13) \/ (~IsScan13(id) /\ w[k].a10)
            THEN OlResponse(id, ScanOlObjects[k]) ELSE OlNothing]

GbWorld(w) ==
    [id \in ScanIds |->
        LET k == IndexOfId(id)
        IN  IF (IsScan13(id) /\ w[k].b13) \/ (~IsScan13(id) /\ w[k].b10)
            THEN ScanGbItems[k] ELSE GbNothing]

Sup13 == [i \in 1..13 |-> "sup2"]

Sup978 == <<"9", "7", "8">> \o [i \in 1..10 |-> "sup2"]

Digits12 == SubSeq(Isbn1, 1, 12)

ScanInputs ==
    { Isbn1, Isbn2, Isbn979, <<" ">> \o Isbn2 \o <<" ">>,
      Isbn1as10, Digits12, Sup13, Sup978, Empty, <<"-">>, <<"q">>, <<"Q">> }

TitleInputs == { TxtTitle, Isbn3as10 }

AuthorInputs == { Empty, <<"t", "w">> }

SelectionInputs == { <<"q">>, <<"1">>, <<"9">> }

----------------------------------------------------------------------------
(* The catalogs and the collaborators' answers of the cleaner              *)

MaxRows == 2

MaxRuns == 2

Row(isbn13, isbn10, date, tags, thumbnail, description) ==
    <<isbn13, isbn10, TxtTitle, Empty, AuthJaneTwain, date, TxtUrl, isbn13,
      tags, thumbnail, description>>

RowSamples ==
    { Row(Isbn1, Isbn1as10, Empty, Empty, Empty, Empty),
      Row(Isbn1, Isbn1as10, DateYearOnly, TxtOldTags, Empty, TxtOldDesc),
      Row(Isbn1, Isbn1as10, DateIso, Empty, Empty, TxtOldDesc),
      Row(Empty, Isbn1as10, Empty, Empty, Empty, Empty),
      Row(Isbn1, Isbn1as10, DateIso, TxtOldTags, TxtOldThumb, Empty),
      Row(Isbn1, Isbn1as10, DateIso, TxtOldTags, Empty, TxtOldDesc),
      SubSeq(Row(Isbn1, Empty, DateNamed, Empty, Empty, Empty), 1, 9) }

RECURSIVE SeqsUpTo(_, _)
SeqsUpTo(S, n) ==
    IF n = 0 THEN {<<>>}
    ELSE LET shorter == SeqsUpTo(S, n - 1)
         IN  shorter \cup {Append(s, x) : s \in {t \in shorter : Len(t) = n - 1}, x \in S}

CleanerCatalogs == SeqsUpTo(RowSamples, MaxRows) \ {<<>>}

CleanerOl13 ==
    { OlNothing,
      OlResponse(Isbn1, OlObject(TxtTitle, <<>>, Empty, Empty,
                                 <<Subject(TxtSubjectA), SubjectNoName, Subject(TxtSubjectB)>>)),
      OlResponse(Isbn1, OlObject(TxtTitle, <<>>, Empty, Empty, <<SubjectNoName>>)) }

CleanerOl10 ==
    { OlNothing,
      OlResponse(Isbn1as10, OlObject(TxtTitle, <<>>, Empty, Empty, <<Subject(TxtSubjectB)>>)) }

CleanerGb13 ==
    { GbNothing,
      GbItem(TxtTitle, <<>>, DateIsoB, <<TxtFiction, TxtHistory>>, TxtDesc, TxtThumb),
      GbItem(TxtTitle, <<>>, DateYear1999, <<>>, Empty, Empty),
      GbItem(TxtTitle, <<>>, DateIsoShort, <<TxtFiction>>, Empty, TxtThumb),
      GbItem(TxtTitle, <<>>, DateBadDay, <<TxtFiction>>, TxtDesc, TxtThumb) }

CleanerGb10 ==
    { GbNothing,
      GbItem(TxtTitle, <<>>, DateIso, <<TxtHistory>>, TxtOldDesc, TxtOldThumb) }

CleanerWorld(r13, r10) == [id \in {Isbn1, Isbn1as10} |-> IF id = Isbn1 THEN r13 ELSE r10]

----------------------------------------------------------------------------
(* Inputs of the pure functions                                            *)

MaxDateLen == 4

IsbnTailLen == 4

\* the strings over S of length exactly n
RECURSIVE StringsOfLen(_, _)
StringsOfLen(S, n) ==
    IF n = 0 THEN {<<>>}
    ELSE {Append(s, c) : s \in StringsOfLen(S, n - 1), c \in S}

DateAlphabet == {"0", "1", "2", "9", "x"}

DateCurated ==
    { DateNamed, DateIso, DateIsoShort, DateIsoB, DateBadDay,
      <<"j","a","n"," ","0","5",","," ","2","0","0","1">>,
      <<"J","a","n"," ","5",",","2","0","0","1">>,
      <<"J","a","n"," "," ","5",","," ","1","8","5","0">>,
      <<"F","e","b"," ","2","9",","," ","2","0","0","0">>,
      <<"F","e","b"," ","2","9",","," ","1","9","0","0">>,
      <<"1","8","5","0","-","0","3","-","0","4">>,
      <<"2","0","0","1","-","1","3","-","0","1">>,
      <<"2","0","0","1","-","0","1","-"," ","5">>,
      <<"1","8","5","0","x","y","z">>, <<"1","9","5","0","x","y","z">>,
      <<"2","0","5","0","x","y","z">>, <<"a","b","c","d">>,
      <<"9","9","9","9","9","9","9","9","9","9">>,
      <<"2","1","4","7","4","8","3","6","4","8">>,
      <<"2","1","4","7","4","8","3","6","4","7">>,
      <<"-","9","9","9","9","9","9","9","9","9","9">>,
      <<"-","5">>, <<"+","2","0","0">>, <<" ","2","0","0","1"," ">>,
      <<"1","2","3","4","5">>, <<"0","0","0","0","2","0","0","1">> }

DateInputs ==
    DateCurated \cup UNION {StringsOfLen(DateAlphabet, n) : n \in 0..MaxDateLen}

IsbnAlphabet == {"0", "1", "6", "9", "a"}

IsbnCurated ==
    { Isbn1, Isbn2, Isbn3, Isbn979, Digits12, Empty, Sup13, Sup978,
      Isbn1 \o <<"0">>, <<"9", "7">>, Isbn1as10 }

IsbnInputs ==
    IsbnCurated \cup
    { <<"9", "7", "8">> \o [i \in 1..(10 - IsbnTailLen) |-> "0"] \o s :
        s \in StringsOfLen(IsbnAlphabet, IsbnTailLen) }

----------------------------------------------------------------------------
(* The state machine                                                       *)

NotRun == [exc |-> "not_run"]

\* the variables a program does not use
IdlePure == arg = Empty /\ res = NotRun

InitScanner ==
    /\ prog = "scanner"
    /\ pc = "start"
    /\ books = <<>>
    /\ csv = <<>>
    /\ \E w \in ScanAvails : olib = OlWorld(w) /\ gbooks = GbWorld(w)
    /\ queries = <<>>
    /\ cur = Empty
    /\ prev = <<>>
    /\ last = "init"
    /\ runs = 0
    /\ IdlePure

InitCleaner ==
    /\ prog = "cleaner"
    /\ pc = "start"
    /\ books = <<>>
    /\ csv \in CleanerCatalogs
    /\ \E r13 \in CleanerOl13, r10 \in CleanerOl10 : olib = CleanerWorld(r13, r10)
    /\ \E r13 \in CleanerGb13, r10 \in CleanerGb10 : gbooks = CleanerWorld(r13, r10)
    /\ queries = <<>>
    /\ cur = 0
    /\ prev = <<>>
    /\ last = "init"
    /\ runs = 0
    /\ IdlePure

InitPure(name, inputs) ==
    /\ prog = name
    /\ pc = "call"
    /\ books = <<>> /\ csv = <<>> /\ olib = <<>> /\ gbooks = <<>>
    /\ queries = <<>> /\ cur = 0 /\ prev = <<>> /\ last = "init" /\ runs = 0
    /\ arg \in inputs
    /\ res = NotRun

InitIsbn == InitPure("isbn13_to_isbn10", IsbnInputs)

InitDate == InitPure("sortable_date", DateInputs)

Init == InitScanner \/ InitCleaner \/ InitIsbn \/ InitDate

\* scanner.main line 140: books = load_books()
ScannerLoad ==
    /\ prog = "scanner" /\ pc = "start"
    /\ books' = load_books(csv)
    /\ pc' = "loop"
    /\ last' = "loaded"
    /\ UNCHANGED <<prog, csv, olib, gbooks, queries, cur, prev, runs, arg, res>>

Apply(out, typed) ==
    /\ books' = out.books
    /\ csv' = out.csv
    /\ queries' = out.log
    /\ last' = out.last
    /\ pc' = out.pc
    /\ cur' = typed
    /\ prev' = books
    /\ UNCHANGED <<prog, olib, gbooks, runs, arg, res>>

\* scanner.main lines 143-214: one input line, not a title
ScanInput ==
    /\ prog = "scanner" /\ pc = "loop"
    /\ \E typed \in {s \in ScanInputs \cup TitleInputs :
                          ~IsTitle(Strip(s)) \/ IsQuit(Strip(s))} :
          /\ \E out \in {HandleInput(books, csv, olib, gbooks, typed)} :
                Apply(out, typed)

\* scanner.main lines 216-243: a title, then the author and the selection
ScanTitle ==
    /\ prog = "scanner" /\ pc = "loop"
    /\ \E typed \in {s \in ScanInputs \cup TitleInputs :
                          IsTitle(Strip(s)) /\ ~IsQuit(Strip(s))},
          author \in AuthorInputs, selection \in SelectionInputs :
          /\ \E out \in {HandleTitle(books, csv, Strip(typed), author, selection)} :
                Apply(out, typed)

\* cleaner.main lines 86-103: read books.csv
CleanerLoad ==
    /\ prog = "cleaner" /\ pc = "start"
    /\ books' = [i \in 1..Len(csv) |-> BookOfRow(csv[i])]
    /\ arg' = csv
    /\ cur' = 1
    /\ pc' = "loop"
    /\ last' = "loaded"
    /\ queries' = <<>>
    /\ UNCHANGED <<prog, csv, olib, gbooks, prev, runs, res>>

\* cleaner.main lines 107-108: update_book_info on the next book
CleanerUpdate ==
    /\ prog = "cleaner" /\ pc = "loop" /\ cur <= Len(books)
    /\ LET r == update_book_info(books[cur], olib, gbooks)
       IN  /\ books' = [books EXCEPT ![cur] = r.book]
           /\ queries' = r.log
    /\ prev' = books[cur]
    /\ cur' = cur + 1
    /\ last' = "updated"
    /\ UNCHANGED <<prog, pc, csv, olib, gbooks, runs, arg, res>>

\* cleaner.main lines 110-116: write books.csv, in the order of the list
CleanerWrite ==
    /\ prog = "cleaner" /\ pc = "loop" /\ cur > Len(books)
    /\ csv' = [i \in 1..Len(books) |-> to_csv_row(books[i])]
    /\ pc' = "done"
    /\ last' = "written"
    /\ runs' = runs + 1
    /\ UNCHANGED <<prog, books, olib, gbooks, queries, cur, prev, arg, res>>

\* the cleaner is run again on the file it wrote
CleanerRerun ==
    /\ prog = "cleaner" /\ pc = "done" /\ runs < MaxRuns
    /\ pc' = "start"
    /\ last' = "init"
    /\ UNCHANGED <<prog, books, csv, olib, gbooks, queries, cur, prev, runs, arg, res>>

\* a call of isbn13_to_isbn10
CallIsbn ==
    /\ prog = "isbn13_to_isbn10" /\ pc = "call"
    /\ res' = isbn13_to_isbn10(arg)
    /\ pc' = "returned"
    /\ UNCHANGED <<prog, books, csv, olib, gbooks, queries, cur, prev, last, runs, arg>>

\* a call of Book.sortable_date
CallDate ==
    /\ prog = "sortable_date" /\ pc = "call"
    /\ res' = sortable_date(arg)
    /\ pc' = "returned"
    /\ UNCHANGED <<prog, books, csv, olib, gbooks, queries, cur, prev, last, runs, arg>>

NextScanner == ScannerLoad \/ ScanInput \/ ScanTitle

NextCleaner == CleanerLoad \/ CleanerUpdate \/ CleanerWrite \/ CleanerRerun

Next == NextScanner \/ NextCleaner \/ CallIsbn \/ CallDate

Spec == Init /\ [][Next]_vars

SpecScanner == InitScanner /\ [][NextScanner]_vars

SpecCleaner == InitCleaner /\ [][NextCleaner]_vars

SpecIsbn == InitIsbn /\ [][CallIsbn]_vars

SpecDate == InitDate /\ [][CallDate]_vars

----------------------------------------------------------------------------
(* Properties of the enrichment pass (cleaner.update_book_info)            *)

\* a pass has just run: prev is the record before it, After the record
\* after it, queries the collaborator calls it made
Passed == prog = "cleaner" /\ last = "updated"

After == books[cur - 1]

BookFields ==
    {"isbn13", "isbn10", "title", "subtitle", "author", "publish_date", "url",
     "scanned_input", "tags", "description", "thumbnail"}

AsksA(log) == \E i \in 1..Len(log) : log[i][1] = "A"

AsksB(log) == \E i \in 1..Len(log) : log[i][1] = "B"

\* what each source has for a book: the answer to its ISBN-13 if there is
\* one, else the answer to its ISBN-10
PayloadA(book) ==
    IF Fetch(olib, OlNothing, book.isbn13) # OlNothing
    THEN Fetch(olib, OlNothing, book.isbn13)
    ELSE Fetch(olib, OlNothing, book.isbn10)

PayloadB(book) ==
    IF Fetch(gbooks, GbNothing, book.isbn13).present
    THEN Fetch(gbooks, GbNothing, book.isbn13)
    ELSE Fetch(gbooks, GbNothing, book.isbn10)

FullyEnriched(book) ==
    /\ book.tags # Empty
    /\ is_valid_date(book.publish_date)
    /\ book.description # Empty

\* C1, as stated: a second pass with the same answers leaves the record as
\* the first pass left it, and makes no collaborator call once tags,
\* publish_date and description are all present (non-empty) after the first.
C1_AsStated ==
    Passed =>
        LET again == update_book_info(After, olib, gbooks)
        IN  /\ again.book = After
            /\ (After.tags # Empty /\ After.publish_date # Empty
                   /\ After.description # Empty) => again.log = <<>>

\* C1, amended: a second pass with the same answers leaves the record as the
\* first pass left it (also when the cleaner is run again on the file it
\* wrote), and makes no collaborator call once tags and description are
\* non-empty and publish_date is ISO-valid after the first pass.
C1_Idempotent ==
    Passed =>
        LET again == update_book_info(After, olib, gbooks)
        IN  /\ again.book = After
            /\ FullyEnriched(After) => again.log = <<>>
            /\ runs >= 1 => After = prev

C1_Witness ==
    /\ Passed /\ runs = 0
    /\ After # prev
    /\ FullyEnriched(After)
    /\ AsksA(queries) /\ AsksB(queries)

\* C2, as stated: a field that is non-empty before a pass holds the same
\* value after it, for every field of the record.
C2_AsStated ==
    Passed => \A f \in BookFields : prev[f] # Empty => After[f] = prev[f]

\* C2, amended: every field other than publish_date that is non-empty before
\* a pass holds the same value after it, and a field that changes was empty
\* and becomes non-empty; publish_date is never emptied, and changes only
\* from a value that is not ISO-valid to one that is.
C2_Monotone ==
    Passed =>
        /\ \A f \in BookFields \ {"publish_date"} :
              After[f] # prev[f] => prev[f] = Empty /\ After[f] # Empty
        /\ After.publish_date # prev.publish_date =>
              /\ ~is_valid_date(prev.publish_date)
              /\ is_valid_date(After.publish_date)

C2_Witness ==
    /\ Passed
    /\ prev.publish_date # Empty
    /\ After.publish_date # prev.publish_date
    /\ prev.description # Empty /\ PayloadB(prev).description # Empty
    /\ prev.thumbnail = Empty /\ After.thumbnail # Empty

\* C3: in one pass Open Library is asked iff the tags are empty at its
\* start, Google Books is asked iff the publish date is not ISO-valid or the
\* description is empty at its start; a record with tags, an ISO-valid date
\* and a description causes no call and no change, whatever the
\* collaborators hold.
C3_Gating ==
    Passed =>
        /\ AsksA(queries) <=> prev.tags = Empty
        /\ AsksB(queries) <=>
              (~is_valid_date(prev.publish_date) \/ prev.description = Empty)
        /\ FullyEnriched(prev) => queries = <<>> /\ After = prev

C3_Witness ==
    /\ Passed
    /\ FullyEnriched(prev)
    /\ prev.thumbnail = Empty
    /\ PayloadB(prev).present /\ PayloadB(prev).thumbnail # Empty
    /\ PayloadA(prev) # OlNothing
    /\ queries = <<>>

\* the tag set of what Open Library has for the book, under whichever
\* identifier the payload was obtained with
TagSetA(book) ==
    LET data == PayloadA(book)
    IN  IF data = OlNothing THEN Empty
        ELSE Join(CommaSpace, SubjectNames(data[1].obj.subjects))

\* the tag set of the payload Google Books returned in the pass
TagSetB(book, log) ==
    IF AsksB(log) /\ PayloadB(book).categories # <<>>
    THEN Join(CommaSpace, PayloadB(book).categories)
    ELSE Empty

\* C4: a record with empty tags gets Open Library's tags when Open Library
\* has a non-empty tag set for it (under its ISBN-13 or its ISBN-10), else
\* Google Books' tags when that set is non-empty; a record with tags keeps
\* them.
C4_TagMerge ==
    Passed =>
        IF prev.tags # Empty THEN After.tags = prev.tags
        ELSE IF TagSetA(prev) # Empty THEN After.tags = TagSetA(prev)
        ELSE IF TagSetB(prev, queries) # Empty
             THEN After.tags = TagSetB(prev, queries)
        ELSE TRUE

C5_KeptWitness ==
    /\ Passed
    /\ ~is_valid_date(prev.publish_date)
    /\ PayloadB(prev).present /\ PayloadB(prev).publishedDate # Empty
    /\ After.publish_date = prev.publish_date

----------------------------------------------------------------------------
(* Properties of the add path (scanner.main)                               *)

\* the handler of one input has just run: cur is the line typed, prev the
\* catalog before it, queries the collaborator calls it made
Handled == prog = "scanner" /\ last \notin {"init", "loaded"}

Typed == Strip(cur)

AddOutcomes ==
    {"added_openlibrary_13", "added_openlibrary_10", "added_google_13",
     "added_google_10"}

GateOutcomes == AddOutcomes \cup {"already", "not_found"}

JustAdded == prog = "scanner" /\ last \in AddOutcomes

\* the record stored under the identifier typed
Created == books[CHOOSE i \in 1..Len(books) : books[i].isbn13 = Typed]

\* what the sources have for the identifier typed, under it or under the
\* ISBN-10 derived from it
Derived10 == isbn13_to_isbn10(Typed).val

HasA13 == Fetch(olib, OlNothing, Typed) # OlNothing

HasA == HasA13 \/ (Derived10 # Empty /\ Fetch(olib, OlNothing, Derived10) # OlNothing)

HasB13 == Fetch(gbooks, GbNothing, Typed).present

HasB == HasB13 \/ (Derived10 # Empty /\ Fetch(gbooks, GbNothing, Derived10).present)

ItemB ==
    IF HasB13 THEN Fetch(gbooks, GbNothing, Typed)
    ELSE Fetch(gbooks, GbNothing, Derived10)

ObjectA ==
    IF HasA13 THEN Fetch(olib, OlNothing, Typed)[1].obj
    ELSE Fetch(olib, OlNothing, Derived10)[1].obj

PrimaryFields == {"title", "subtitle", "author", "publish_date", "url"}

C6_EmptyWitness ==
    /\ JustAdded /\ ~HasA13 /\ HasA /\ HasB
    /\ ObjectA.title # Empty /\ Created.title = Empty

Isbn13Shape(s) == Len(s) = 13 /\ AllDigits(s)

Isbn10Shape(s) ==
    /\ Len(s) = 10
    /\ AllDigits(SubSeq(s, 1, 9))
    /\ s[10] \in DigitSet \cup {"X", "x"}

Untouched == queries = <<>> /\ books = prev /\ csv = save_books(books)

C7_TitleWitness == Handled /\ Isbn10Shape(Typed) /\ last = "no_match"

C7_NonDecimalWitness ==
    Handled /\ ~Isbn13Shape(Typed) /\ Len(Typed) = 13 /\ queries # <<>>

\* the last whitespace-separated token of a string, empty for none
LastToken(s) ==
    LET r == RStrip(s)
        blanks == {i \in 1..Len(r) : r[i] = " "}
        from == IF blanks = {} THEN 1
                ELSE (CHOOSE i \in blanks : \A j \in blanks : j <= i) + 1
    IN  SubSeq(r, from, Len(r))

\* (last token of author, lower-cased; classes.Book.sortable_date)
StatedKeyLess(author1, date1, author2, date2) ==
    \/ StrLess(Lower(LastToken(author1)), Lower(LastToken(author2)))
    \/ /\ Lower(LastToken(author1)) = Lower(LastToken(author2))
       /\ DateLess(sortable_date(date1), sortable_date(date2))

\* the file has just been written by the scanner / by the cleaner
ScannerSaved == prog = "scanner" /\ last \in AddOutcomes

CleanerSaved == prog = "cleaner" /\ pc = "done"

ScannerKeyLess(row1, row2) ==
    \/ StrLess(Lower(row1[4]), Lower(row2[4]))
    \/ /\ Lower(row1[4]) = Lower(row2[4])
       /\ DateLess(scanner_sortable_date(row1[5]), scanner_sortable_date(row2[5]))

C8_CleanerWitness ==
    /\ CleanerSaved
    /\ Len(csv) = 2
    /\ StatedKeyLess(csv[2][5], csv[2][6], csv[1][5], csv[1][6])

----------------------------------------------------------------------------
(* Properties of the pure functions                                        *)

Returned(name) == prog = name /\ pc = "returned"

\* C9: isbn13_to_isbn10 never raises; it returns "" for an input that does
\* not start with 978 or is not 13 long, and for any other input the nine
\* characters at positions 3..11 followed by the check character of
\* 11 - (sum of digit[i] * (10 - i) mod 11), 10 written X and 11 written 0.
C9_Total ==
    Returned("isbn13_to_isbn10") =>
        /\ res.exc = "none"
        /\ IF Len(arg) # 13 \/ SubSeq(arg, 1, 3) # <<"9", "7", "8">>
           THEN res.val = Empty
           ELSE /\ Len(res.val) = 10
                /\ SubSeq(res.val, 1, 9) = SubSeq(arg, 4, 12)
                /\ AllDigits(SubSeq(arg, 4, 12)) =>
                      LET check == 11 - (WeightedSum(SubSeq(arg, 4, 12), 0) % 11)
                      IN  res.val[10] = (IF check = 10 THEN "X"
                                         ELSE IF check = 11 THEN "0"
                                         ELSE DigitChar(check))
        /\ arg = Isbn1 => res.val = Isbn1as10

\* what C9 says, for the inputs whose nine core characters are decimal digits
C9_OnDigits ==
    (Len(arg) = 13 /\ SubSeq(arg, 1, 3) = <<"9", "7", "8">>
        => AllDigits(SubSeq(arg, 4, 12))) => C9_Total

Sentinel == Date(SentinelYear, 1, 1)

\* the cascade as C10 states it
StatedDate(s) ==
    IF StrptimeBdY(s).exc = "none" THEN StrptimeBdY(s)
    ELSE IF StrptimeYmd(s).exc = "none" THEN StrptimeYmd(s)
    ELSE IF YearField(s) /\ SmallVal(s) >= 1 THEN Date(SmallVal(s), 1, 1)
    ELSE IF IntParse(Slice(s, 1, 4)).ok
         THEN Date(YearClamp(SmallInt(IntParse(Slice(s, 1, 4)))), 1, 1)
    ELSE Sentinel

\* C10: sortable_date never fails and follows the cascade month-name date,
\* ISO date, whole string as a four-digit year, first four characters as a
\* clamped year, else 1900-01-01, which is the earliest value it produces.
C10_Cascade ==
    Returned("sortable_date") =>
        /\ res.exc = "none"
        /\ res = StatedDate(arg)
        /\ ~DateLess(res, Sentinel)

\* what C10 says of totality alone
C10_NeverFails == Returned("sortable_date") => res.exc = "none"

\* what C10 says of the sentinel alone
C10_SentinelEarliest ==
    (Returned("sortable_date") /\ res.exc = "none") => ~DateLess(res, Sentinel)

----------------------------------------------------------------------------
(* A source that has nothing (cleaner.update_book_info)                    *)

\* the source was asked in the pass and answered nothing, to the ISBN-13
\* and to the ISBN-10
NothingA(book, log) == AsksA(log) /\ PayloadA(book) = OlNothing

NothingB(book, log) == AsksB(log) /\ ~PayloadB(book).present

\* the fills the payload of Google Books allows: tags, date repair,
\* description, thumbnail
FillsOfB(book, google) ==
    [book EXCEPT
       !.tags = IF book.tags = Empty /\ google.categories # <<>>
                THEN Join(CommaSpace, google.categories) ELSE book.tags,
       !.publish_date = IF ~is_valid_date(book.publish_date)
                             /\ is_valid_date(google.publishedDate)
                        THEN google.publishedDate ELSE book.publish_date,
       !.description = IF book.description = Empty
                       THEN google.description ELSE book.description,
       !.thumbnail = IF book.thumbnail = Empty
                     THEN google.thumbnail ELSE book.thumbnail]

\* the fill the payload of Open Library allows: tags
FillsOfA(book) ==
    [book EXCEPT !.tags = IF book.tags = Empty /\ TagSetA(book) # Empty
                          THEN TagSetA(book) ELSE book.tags]

\* C11: when a source that was asked has nothing, the pass still applies
\* every fill the payload of the other source allows (tags, date repair,
\* description, thumbnail); when every source that was asked has nothing,
\* the record after the pass is the record before it.
C11_NonFatal ==
    Passed =>
        /\ (NothingA(prev, queries) /\ AsksB(queries) /\ PayloadB(prev).present)
              => After = FillsOfB(prev, PayloadB(prev))
        /\ (NothingB(prev, queries) /\ AsksA(queries) /\ PayloadA(prev) # OlNothing)
              => After = FillsOfA(prev)
        /\ ((AsksA(queries) \/ AsksB(queries))
               /\ (AsksA(queries) => NothingA(prev, queries))
               /\ (AsksB(queries) => NothingB(prev, queries)))
              => After = prev

\* what C11 says when it is Open Library that has nothing
C11_GoogleFills ==
    (Passed /\ NothingA(prev, queries) /\ AsksB(queries) /\ PayloadB(prev).present)
        => After = FillsOfB(prev, PayloadB(prev))

\* what C11 says when every source asked has nothing
C11_AllNothing ==
    (Passed /\ (AsksA(queries) \/ AsksB(queries))
        /\ (AsksA(queries) => NothingA(prev, queries))
        /\ (AsksB(queries) => NothingB(prev, queries)))
        => After = prev

\* what C11 says when it is Google Books that has nothing and Open Library
\* answered the ISBN-13
C11_OpenLibraryFills ==
    (Passed /\ NothingB(prev, queries) /\ AsksA(queries)
        /\ Fetch(olib, OlNothing, prev.isbn13) # OlNothing)
        => After = FillsOfA(prev)

\* reached: Open Library has nothing and Google Books' payload fills tags,
\* date and description
C11_GoogleFillsReached ==
    /\ Passed /\ NothingA(prev, queries) /\ PayloadB(prev).present
    /\ After.tags # Empty /\ After.publish_date # prev.publish_date
    /\ prev.description = Empty /\ After.description # Empty

\* reached: both sources were asked and both have nothing
C11_AllNothingReached ==
    /\ Passed /\ NothingA(prev, queries) /\ NothingB(prev, queries)
    /\ After = prev

----------------------------------------------------------------------------
(* The fallback chain of the add path (scanner.main)                       *)

\* the (source, identifier) pairs for the identifier typed, in the order
\* stated; the two pairs of the derived ISBN-10 exist when the identifier
\* has one (it starts with 978)
ChainPairs ==
    <<QueryA(Typed)>>
       \o (IF Derived10 # Empty THEN <<QueryA(Derived10)>> ELSE <<>>)
       \o <<QueryB(Typed)>>
       \o (IF Derived10 # Empty THEN <<QueryB(Derived10)>> ELSE <<>>)

\* the pair yields a non-empty payload
Yields(pair) ==
    IF pair[1] = "A" THEN Fetch(olib, OlNothing, pair[2]) # OlNothing
    ELSE Fetch(gbooks, GbNothing, pair[2]).present

ChainHits == {i \in 1..Len(ChainPairs) : Yields(ChainPairs[i])}

FirstHit == CHOOSE i \in ChainHits : \A j \in ChainHits : i <= j

\* a 13-digit identifier has just been handled
Scanned13 == Handled /\ Isbn13Shape(Typed)

\* C12: for a 13-digit identifier not in the catalog the pairs (Open
\* Library, ISBN-13), (Open Library, derived ISBN-10), (Google Books,
\* ISBN-13), (Google Books, derived ISBN-10) are tried in this order until
\* one yields a payload; then exactly one record is inserted under the
\* identifier, the catalog is persisted and no later pair is queried; when
\* none yields a payload the catalog is unchanged; an identifier already in
\* the catalog causes no query and no change.
C12_Chain ==
    Scanned13 =>
        IF InCatalog(prev, Typed)
        THEN last = "already" /\ Untouched
        ELSE IF ChainHits = {}
        THEN /\ last = "not_found"
             /\ queries = ChainPairs
             /\ books = prev /\ csv = save_books(prev)
        ELSE /\ last \in AddOutcomes
             /\ queries = SubSeq(ChainPairs, 1, FirstHit)
             /\ Len(books) = Len(prev) + 1
             /\ SubSeq(books, 1, Len(prev)) = prev
             /\ books[Len(books)].isbn13 = Typed
             /\ csv = save_books(books)

\* the last pair of the chain answered, for a catalog that is not empty
C12_Witness ==
    /\ Scanned13
    /\ last = "added_google_10"
    /\ Len(queries) = 4
    /\ Len(prev) >= 1 /\ Len(books) = Len(prev) + 1

\* other cases of C12: the chain stops at its second pair although a later
\* pair has a payload; no pair answers; an identifier with no ISBN-10;
\* an identifier already in the catalog
C12_StopWitness ==
    /\ Scanned13
    /\ last = "added_openlibrary_10"
    /\ Len(queries) = 2
    /\ \E i \in ChainHits : i > 2

C12_NotFoundWitness ==
    Scanned13 /\ last = "not_found" /\ Len(queries) = 4 /\ Len(prev) >= 1

C12_NoIsbn10Witness ==
    /\ Scanned13 /\ Derived10 = Empty
    /\ last = "added_google_13" /\ queries = <<QueryA(Typed), QueryB(Typed)>>

C12_AlreadyWitness ==
    Scanned13 /\ last = "already" /\ HasA /\ HasB

====
